---- MODULE Spec2Model ----
(***************************************************************************)
(* The DeKUT chatbot: scraper.py merges scraped FAQs into intents.json,    *)
(* train.py fits a TF-IDF vectorizer, a label encoder and a classifier on  *)
(* intents.json and pickles them into models/, app.py loads the corpus    *)
(* and the three pickles once and answers queries.                         *)
(*                                                                         *)
(* The three programs are separate processes that share the files          *)
(* intents.json, models/tfidf_vectorizer.pkl, models/label_encoder.pkl and *)
(* models/intent_classifier.joblib.  One file read or write is one step.   *)
(*                                                                         *)
(* Text is a sequence of one-character strings, so that strip(), lower()   *)
(* and replace() are computed.  Responses are never inspected by the code  *)
(* and stay opaque strings.  The "run" field of a fitted object is the     *)
(* number of the training run that fitted it (0: a run before the model    *)
(* starts); it is bookkeeping, nothing in the code reads it.               *)
(***************************************************************************)
EXTENDS Integers, Sequences, FiniteSets

VARIABLES
    intentsFile,    \* intents.json
    vecFile,        \* models/tfidf_vectorizer.pkl
    encFile,        \* models/label_encoder.pkl
    clfFile,        \* models/intent_classifier.joblib
    scrapes,        \* update_intents runs so far
    trainPc,        \* where SimpleIntentClassifier.train stands
    trainRun,       \* training runs started so far
    tVectorizer,    \* the trainer's self.vectorizer
    tLabelEncoder,  \* the trainer's self.label_encoder
    tClassifier,    \* the trainer's self.classifier
    accuracy,       \* the trainer's held-out accuracy, in percent
    srvPc,          \* where SimpleDekutChatbot.__init__ stands
    intents_data,   \* the chatbot's self.intents_data
    vectorizer,     \* the chatbot's self.vectorizer
    label_encoder,  \* the chatbot's self.label_encoder
    classifier,     \* the chatbot's self.classifier
    tag_responses,  \* the chatbot's self.tag_responses
    call            \* the last request served and what it did

disk    == <<intentsFile, vecFile, encFile, clfFile>>
trainer == <<trainPc, trainRun, tVectorizer, tLabelEncoder, tClassifier, accuracy>>
bundle  == <<intents_data, vectorizer, label_encoder, classifier, tag_responses>>
vars    == <<disk, scrapes, trainer, srvPc, bundle, call>>

-----------------------------------------------------------------------------
(* Bounds of the model *)

MaxScrapes   == 2   \* update_intents runs
MaxTrainRuns == 1   \* training runs started while the model runs

(* Program constants *)

max_features == 1000   \* TfidfVectorizer(max_features=1000)
Threshold    == 50     \* probability > 0.5, in percent

-----------------------------------------------------------------------------
(* Text *)

Range(s) == {s[i] : i \in 1..Len(s)}

Min(a, b) == IF a < b THEN a ELSE b

LowerChar(c) ==
    IF c = "H" THEN "h" ELSE IF c = "F" THEN "f" ELSE c

\* str.lower()
lower(s) == [i \in 1..Len(s) |-> LowerChar(s[i])]

IsSpace(c) == c = " "

RECURSIVE lstrip(_)
lstrip(s) == IF s # <<>> /\ IsSpace(Head(s)) THEN lstrip(Tail(s)) ELSE s

RECURSIVE rstrip(_)
rstrip(s) ==
    IF s # <<>> /\ IsSpace(s[Len(s)]) THEN rstrip(SubSeq(s, 1, Len(s) - 1)) ELSE s

\* str.strip()
strip(s) == rstrip(lstrip(s))

\* str.replace(old, new) for a one-character old
RECURSIVE replace(_, _, _)
replace(s, old, new) ==
    IF s = <<>> THEN <<>>
    ELSE (IF Head(s) = old THEN new ELSE <<Head(s)>>) \o replace(Tail(s), old, new)

what_is       == <<"w", "h", "a", "t", " ", "i", "s", " ">>
tell_me_about == <<"t", "e", "l", "l", " ", "m", "e", " ", "a", "b", "o", "u", "t", " ">>
please        == <<" ", "p", "l", "e", "a", "s", "e">>

-----------------------------------------------------------------------------
(* intents.json *)

Intent(tag, patterns, responses) ==
    [tag |-> tag, patterns |-> patterns, responses |-> responses]

\* An intent's patterns are kept up to order and multiplicity: the code reads
\* them only to enumerate training samples.
greeting == Intent("greeting", {<<"h">>, <<"h", "i">>}, <<"Hello!", "Hi there!">>)
fees     == Intent("fees", {<<"f", "e", "e", "s">>},
                   <<"Fees are posted on the finance page.">>)
draft    == Intent("draft", {<<"h", "o", "s", "t", "e", "l">>}, <<>>)

NoCorpus == [readable |-> FALSE, intents |-> <<>>]
Corpus(intents) == [readable |-> TRUE, intents |-> intents]

\* The corpus files the programs may be started on: none (or one json.load
\* rejects), the hand-written corpus, and one holding an intent without responses.
InitCorpora == {NoCorpus, Corpus(<<greeting, fees>>), Corpus(<<greeting, draft>>)}

Tags(intents) == {intents[i].tag : i \in 1..Len(intents)}

UniqueTags(intents) ==
    \A i, j \in 1..Len(intents) : intents[i].tag = intents[j].tag => i = j

NonEmptyIntents(intents) ==
    \A i \in 1..Len(intents) :
        intents[i].patterns # {} /\ intents[i].responses # <<>>

-----------------------------------------------------------------------------
(* scraper.py *)

\* What the site yields when it can be reached: headings that matched a
\* keyword, each with the paragraphs under it (scrape_page keeps a FAQ only
\* when its answer is not blank).
SiteFaqs ==
    << [question |-> <<"F", "?">>,
        answer   |-> "Fees are paid through the student portal."],
       [question |-> <<"F", "e", "e", "s">>,
        answer   |-> "The fee structure is published every year."] >>

\* The lists scrape_all may return: nothing (every page failed), or the FAQs.
ScrapeResults == {<<>>, SiteFaqs}

\* The five pattern variations of one question.
FaqPatterns(question) ==
    { question,
      lower(question),
      what_is \o replace(lower(question), "?", <<>>),
      tell_me_about \o replace(lower(question), "?", <<>>),
      replace(question, "?", please) }

\* The intent update_intents builds from the scraped FAQs.
ScrapedIntent(scraped_faqs) ==
    Intent("scraped_faqs",
           UNION {FaqPatterns(scraped_faqs[i].question) : i \in 1..Len(scraped_faqs)},
           [i \in 1..Len(scraped_faqs) |-> scraped_faqs[i].answer])

\* DeKUTScraper.update_intents: open() raises on a missing corpus, an empty
\* scrape returns before anything is written, otherwise the scraped intent is
\* appended and the file rewritten.
update_intents(scraped_faqs) ==
    /\ scrapes < MaxScrapes
    /\ scrapes' = scrapes + 1
    /\ intentsFile' =
          IF ~intentsFile.readable \/ scraped_faqs = <<>>
          THEN intentsFile
          ELSE Corpus(Append(intentsFile.intents, ScrapedIntent(scraped_faqs)))
    /\ UNCHANGED <<vecFile, encFile, clfFile, trainer, srvPc, bundle, call>>

-----------------------------------------------------------------------------
(* train.py *)

\* LabelEncoder sorts the distinct tags; this is the sorted tag universe.
TagOrder == <<"draft", "fees", "greeting", "scraped_faqs">>

Accuracies == {0, 100}

\* A file that is absent (or that pickle rejects), an object not fitted yet.
Missing  == "missing"
Unfitted == "unfitted"
Fitted   == "fitted"

Vectorizer(state, run, vocabulary) ==
    [state |-> state, run |-> run, vocabulary |-> vocabulary]
LabelEncoder(state, run, classes) ==
    [state |-> state, run |-> run, classes |-> classes]
LogisticRegression(state, run, n_features_in, n_classes) ==
    [state |-> state, run |-> run, n_features_in |-> n_features_in,
     n_classes |-> n_classes]

NoVectorizer(state)   == Vectorizer(state, 0 - 1, {})
NoLabelEncoder(state) == LabelEncoder(state, 0 - 1, <<>>)
NoClassifier(state)   == LogisticRegression(state, 0 - 1, 0, 0)

\* SimpleIntentClassifier.prepare_data: one (lower-cased pattern, tag) sample
\* per pattern of every intent.
prepare_data(data) ==
    UNION { {[pattern |-> lower(p), tag |-> data.intents[i].tag] :
                p \in data.intents[i].patterns} : i \in 1..Len(data.intents) }

\* TfidfVectorizer.fit: the vocabulary, one term per distinct pattern, capped.
n_features(vocabulary) == Min(Cardinality(vocabulary), max_features)

fit_vectorizer(run, samples) ==
    Vectorizer(Fitted, run, {s.pattern : s \in samples})

\* LabelEncoder.fit: classes_ is the sorted list of distinct tags.
fit_label_encoder(run, samples) ==
    LET tags == {s.tag : s \in samples}
        seen(t) == t \in tags
    IN  LabelEncoder(Fitted, run, SelectSeq(TagOrder, seen))

fit_classifier(run, samples) ==
    LogisticRegression(Fitted, run,
                       n_features({s.pattern : s \in samples}),
                       Cardinality({s.tag : s \in samples}))

\* fit_transform raises on an empty vocabulary, LogisticRegression.fit on
\* fewer than two classes.
CanFit(samples) == samples # {} /\ Cardinality({s.tag : s \in samples}) >= 2

\* train, lines 42-72: load, fit the three objects, evaluate.  A corpus that
\* cannot be read or fitted raises out of train and nothing is saved.
train_fit ==
    /\ trainPc \in {"idle", "returned", "raised"}
    /\ trainRun < MaxTrainRuns
    /\ trainRun' = trainRun + 1
    /\ IF intentsFile.readable /\ CanFit(prepare_data(intentsFile))
       THEN LET samples == prepare_data(intentsFile)
            IN  /\ tVectorizer'   = fit_vectorizer(trainRun', samples)
                /\ tLabelEncoder' = fit_label_encoder(trainRun', samples)
                /\ tClassifier'   = fit_classifier(trainRun', samples)
                /\ accuracy' \in Accuracies
                /\ trainPc' = "fitted"
       ELSE /\ tVectorizer'   = NoVectorizer(Unfitted)
            /\ tLabelEncoder' = NoLabelEncoder(Unfitted)
            /\ tClassifier'   = NoClassifier(Unfitted)
            /\ accuracy' = 0
            /\ trainPc' = "raised"
    /\ UNCHANGED <<disk, scrapes, srvPc, bundle, call>>

\* Variant with a fault: the vectorizer is saved only when the run was accurate.
save_vectorizer_if_accurate ==
    /\ trainPc = "fitted"
    /\ vecFile' = IF accuracy > Threshold THEN tVectorizer ELSE vecFile
    /\ trainPc' = "saved_vectorizer"
    /\ UNCHANGED <<intentsFile, encFile, clfFile, scrapes, trainRun, tVectorizer,
                   tLabelEncoder, tClassifier, accuracy, srvPc, bundle, call>>

\* save_model, lines 86-87
save_vectorizer ==
    /\ trainPc = "fitted"
    /\ vecFile' = tVectorizer
    /\ trainPc' = "saved_vectorizer"
    /\ UNCHANGED <<intentsFile, encFile, clfFile, scrapes, trainRun, tVectorizer,
                   tLabelEncoder, tClassifier, accuracy, srvPc, bundle, call>>

\* save_model, lines 90-91
save_label_encoder ==
    /\ trainPc = "saved_vectorizer"
    /\ encFile' = tLabelEncoder
    /\ trainPc' = "saved_label_encoder"
    /\ UNCHANGED <<intentsFile, vecFile, clfFile, scrapes, trainRun, tVectorizer,
                   tLabelEncoder, tClassifier, accuracy, srvPc, bundle, call>>

\* save_model, line 94, and train's return of the accuracy
save_classifier ==
    /\ trainPc = "saved_label_encoder"
    /\ clfFile' = tClassifier
    /\ trainPc' = "returned"
    /\ UNCHANGED <<intentsFile, vecFile, encFile, scrapes, trainRun, tVectorizer,
                   tLabelEncoder, tClassifier, accuracy, srvPc, bundle, call>>

-----------------------------------------------------------------------------
(* app.py: SimpleDekutChatbot.__init__ *)

NoTagResponses == [t \in {} |-> <<>>]

\* The loop of lines 33-35: a later intent with the same tag overwrites an
\* earlier one.
build_tag_responses(intents) ==
    [t \in Tags(intents) |->
        LET last == CHOOSE i \in 1..Len(intents) :
                        /\ intents[i].tag = t
                        /\ \A j \in 1..Len(intents) : intents[j].tag = t => j <= i
        IN  intents[last].responses]

\* The except clause of lines 39-44 re-raises: the module-level
\* chatbot = SimpleDekutChatbot() fails and the process ends without an instance.
init_raise ==
    /\ srvPc' = "failed"
    /\ intents_data' = NoCorpus
    /\ vectorizer' = NoVectorizer(Missing)
    /\ label_encoder' = NoLabelEncoder(Missing)
    /\ classifier' = NoClassifier(Missing)
    /\ tag_responses' = NoTagResponses

\* lines 20-21
load_intents ==
    /\ srvPc = "start"
    /\ IF intentsFile.readable
       THEN /\ intents_data' = intentsFile
            /\ srvPc' = "intents_loaded"
            /\ UNCHANGED <<vectorizer, label_encoder, classifier, tag_responses>>
       ELSE init_raise
    /\ UNCHANGED <<disk, scrapes, trainer, call>>

\* Variant with a fault: a vectorizer file that cannot be loaded is skipped.
load_vectorizer_unchecked ==
    /\ srvPc = "intents_loaded"
    /\ vectorizer' = vecFile
    /\ srvPc' = "vectorizer_loaded"
    /\ UNCHANGED <<intents_data, label_encoder, classifier, tag_responses>>
    /\ UNCHANGED <<disk, scrapes, trainer, call>>

\* lines 24-25
load_vectorizer ==
    /\ srvPc = "intents_loaded"
    /\ IF vecFile.state # Missing
       THEN /\ vectorizer' = vecFile
            /\ srvPc' = "vectorizer_loaded"
            /\ UNCHANGED <<intents_data, label_encoder, classifier, tag_responses>>
       ELSE init_raise
    /\ UNCHANGED <<disk, scrapes, trainer, call>>

\* lines 27-28
load_label_encoder ==
    /\ srvPc = "vectorizer_loaded"
    /\ IF encFile.state # Missing
       THEN /\ label_encoder' = encFile
            /\ srvPc' = "label_encoder_loaded"
            /\ UNCHANGED <<intents_data, vectorizer, classifier, tag_responses>>
       ELSE init_raise
    /\ UNCHANGED <<disk, scrapes, trainer, call>>

\* lines 30-37: the classifier, then the response table; the instance exists
\* once __init__ returns.
load_classifier ==
    /\ srvPc = "label_encoder_loaded"
    /\ IF clfFile.state # Missing
       THEN /\ classifier' = clfFile
            /\ tag_responses' = build_tag_responses(intents_data.intents)
            /\ srvPc' = "ready"
            /\ UNCHANGED <<intents_data, vectorizer, label_encoder>>
       ELSE init_raise
    /\ UNCHANGED <<disk, scrapes, trainer, call>>

-----------------------------------------------------------------------------
(* app.py: SimpleDekutChatbot.get_response *)

fallbacks ==
    << "I'm not sure about that. Please visit https://dkut.ac.ke",
       "Could you rephrase your question?",
       "I'm still learning about that topic.",
       "Please contact admissions@dkut.ac.ke for more information." >>

PleaseType     == "Please type a question."
PleaseEnter    == "Please enter a message."
HavingTrouble  == "I'm having trouble understanding. Please try again."

NoProbability == 0 - 1
NoIntent      == "<no intent>"
NoResponse    == "<no response>"

\* Top probabilities a classifier may report, in percent: the largest of
\* n_classes probabilities that sum to 1 is at least 1/n_classes.
Probabilities == {40, 50, 60}

\* What one run of the body of get_response did: the string it returned, or
\* the exception it raised; whether the vectorizer was called; the
\* probability and the intent, once computed.
Outcome(response, raised, invokedModel, probability, intent) ==
    [response |-> response, raised |-> raised, caught |-> "none",
     invokedModel |-> invokedModel, probability |-> probability, intent |-> intent]

\* random.choice: any element, IndexError on an empty list.
choice(list, probability, intent) ==
    IF list = <<>>
    THEN {Outcome(NoResponse, "IndexError", TRUE, probability, intent)}
    ELSE {Outcome(list[i], "none", TRUE, probability, intent) : i \in 1..Len(list)}

\* Variant with a fault: the comparison with the threshold is the wrong way round.
AcceptBelow(probability, intent, table) ==
    probability < Threshold /\ intent \in DOMAIN table

\* line 66
Accept(probability, intent, table) ==
    probability > Threshold /\ intent \in DOMAIN table

\* lines 66-75
select(probability, intent) ==
    IF Accept(probability, intent, tag_responses)
    THEN choice(tag_responses[intent], probability, intent)
    ELSE choice(fallbacks, probability, intent)

\* TfidfVectorizer.transform: a vector of the fitted width; a text without a
\* vocabulary term is the zero vector.
transform(v, text) ==
    [width |-> n_features(v.vocabulary), terms |-> {t \in v.vocabulary : t = text}]

\* classifier.predict and np.max(classifier.predict_proba): the model does
\* not compute the regression, any class with any admissible top probability
\* may come out.
predictions(clf, X) ==
    {p \in [code : 0..(clf.n_classes - 1), probability : Probabilities] :
        p.probability * clf.n_classes >= 100}

\* lines 59-75: LabelEncoder.inverse_transform raises ValueError on a code it
\* has not seen.
decode_and_select(p) ==
    IF p.code >= Len(label_encoder.classes)
    THEN {Outcome(NoResponse, "ValueError", TRUE, p.probability, NoIntent)}
    ELSE select(p.probability, label_encoder.classes[p.code + 1])

\* lines 52-75, the body of the try: predict raises ValueError on a vector
\* whose width is not the one the classifier was fitted on.
try_body(user_input) ==
    LET X == transform(vectorizer, lower(user_input))
    IN  IF X.width # classifier.n_features_in
        THEN {Outcome(NoResponse, "ValueError", TRUE, NoProbability, NoIntent)}
        ELSE UNION {decode_and_select(p) : p \in predictions(classifier, X)}

\* Variant with a fault: except ValueError
CatchesValueError(exception) == exception = "ValueError"

\* line 77: except Exception
Catches(exception) == TRUE

\* lines 77-79
except(o) ==
    IF o.raised # "none" /\ Catches(o.raised)
    THEN [o EXCEPT !.response = HavingTrouble, !.raised = "none", !.caught = o.raised]
    ELSE o

\* Variant with a fault: the query is tested without strip().
IsEmpty(user_input) == user_input = <<>>

\* line 48
IsBlank(user_input) == strip(user_input) = <<>>

\* get_response: the outcomes one call may have.
get_response(user_input) ==
    IF IsBlank(user_input)
    THEN {Outcome(PleaseType, "none", FALSE, NoProbability, NoIntent)}
    ELSE {except(o) : o \in try_body(user_input)}

-----------------------------------------------------------------------------
(* app.py: requests *)

\* The queries tried: the empty one, blank ones, a pattern of the corpus in
\* lower and in upper case, with and without blanks around it, and one made
\* of characters no pattern holds.
Inputs ==
    { <<>>, <<" ">>, <<" ", " ">>,
      <<"h">>, <<"H">>, <<" ", "h", " ">>, <<"x", "x">> }

Request(route, input, invokedGetResponse, o) ==
    [route |-> route, input |-> input, invokedGetResponse |-> invokedGetResponse,
     success |-> invokedGetResponse /\ o.raised = "none",
     response |-> o.response, raised |-> o.raised, caught |-> o.caught,
     invokedModel |-> o.invokedModel, probability |-> o.probability,
     intent |-> o.intent]

NoCall ==
    Request("none", <<>>, FALSE,
            Outcome(NoResponse, "none", FALSE, NoProbability, NoIntent))

\* A request is being served: its response is computed and not yet handed
\* back.  Requests are taken one at a time: they share nothing but the
\* chatbot's attributes, which they only read, and call records what the
\* request in hand did.
Served == call.route # "none"

\* Variant with a fault: a response that was served is removed from the table.
get_response_call_popping(user_input) ==
    /\ srvPc = "ready"
    /\ ~Served
    /\ \E o \in get_response(user_input) :
          /\ call' = Request("get_response", user_input, TRUE, o)
          /\ tag_responses' =
                IF o.intent \in DOMAIN tag_responses
                THEN LET kept(r) == r # o.response
                     IN  [tag_responses EXCEPT ![o.intent] = SelectSeq(@, kept)]
                ELSE tag_responses
    /\ UNCHANGED <<disk, scrapes, trainer, srvPc, intents_data, vectorizer,
                   label_encoder, classifier>>

\* A caller of chatbot.get_response(user_input) other than the /chat route.
get_response_call(user_input) ==
    /\ srvPc = "ready"
    /\ ~Served
    /\ \E o \in get_response(user_input) :
          call' = Request("get_response", user_input, TRUE, o)
    /\ UNCHANGED <<disk, scrapes, trainer, srvPc, bundle>>

\* POST /chat, lines 88-96
chat(message) ==
    /\ srvPc = "ready"
    /\ ~Served
    /\ LET user_message == strip(message)
       IN  IF user_message = <<>>
           THEN call' = Request("chat", message, FALSE,
                                Outcome(PleaseEnter, "none", FALSE, NoProbability,
                                        NoIntent))
           ELSE \E o \in get_response(user_message) :
                    call' = Request("chat", message, TRUE, o)
    /\ UNCHANGED <<disk, scrapes, trainer, srvPc, bundle>>

\* The response is handed to the caller (line 96: return jsonify(...)) and
\* the request is over; the chatbot keeps nothing of it.
respond ==
    /\ Served
    /\ call' = NoCall
    /\ UNCHANGED <<disk, scrapes, trainer, srvPc, bundle>>

-----------------------------------------------------------------------------
(* The system *)

\* The bundle an earlier training run on corpus c left in models/.
SavedBundle(c) ==
    LET samples == prepare_data(c)
    IN  <<fit_vectorizer(0, samples), fit_label_encoder(0, samples),
          fit_classifier(0, samples)>>

NoBundle == <<NoVectorizer(Missing), NoLabelEncoder(Missing), NoClassifier(Missing)>>

Init ==
    /\ intentsFile \in InitCorpora
    /\ \E saved \in {NoBundle} \cup
                     (IF intentsFile.readable /\ CanFit(prepare_data(intentsFile))
                      THEN {SavedBundle(intentsFile)} ELSE {}) :
          /\ vecFile = saved[1]
          /\ encFile = saved[2]
          /\ clfFile = saved[3]
    /\ scrapes = 0
    /\ trainPc = "idle"
    /\ trainRun = 0
    /\ tVectorizer = NoVectorizer(Unfitted)
    /\ tLabelEncoder = NoLabelEncoder(Unfitted)
    /\ tClassifier = NoClassifier(Unfitted)
    /\ accuracy = 0
    /\ srvPc = "start"
    /\ intents_data = NoCorpus
    /\ vectorizer = NoVectorizer(Missing)
    /\ label_encoder = NoLabelEncoder(Missing)
    /\ classifier = NoClassifier(Missing)
    /\ tag_responses = NoTagResponses
    /\ call = NoCall

Next ==
    \/ \E scraped_faqs \in ScrapeResults : update_intents(scraped_faqs)
    \/ train_fit
    \/ save_vectorizer
    \/ save_label_encoder
    \/ save_classifier
    \/ load_intents
    \/ load_vectorizer
    \/ load_label_encoder
    \/ load_classifier
    \/ \E user_input \in Inputs : get_response_call(user_input)
    \/ \E message \in Inputs : chat(message)
    \/ respond

Spec == Init /\ [][Next]_vars

-----------------------------------------------------------------------------
(* Properties *)

\* A query of spaces only, or of nothing: stated without strip().
AllWhitespace(s) == \A i \in 1..Len(s) : s[i] = " "

IntentResponses ==
    UNION {Range(tag_responses[t]) : t \in DOMAIN tag_responses}

HasResponses(intent) ==
    intent \in DOMAIN tag_responses /\ tag_responses[intent] # <<>>

\* C1: a non-blank query whose top probability is at most 0.5 is answered
\* from the fallback list and never from an intent's response list.
C1_ConfidenceGating ==
    ( /\ Served
      /\ ~AllWhitespace(call.input)
      /\ call.probability # NoProbability
      /\ call.probability <= Threshold )
    => /\ call.response \in Range(fallbacks)
       /\ call.response \notin IntentResponses

\* C2: a non-blank query whose top probability is above 0.5 and whose
\* predicted intent has a registered response is answered from that intent's
\* own response list, and from no other list.
C2_AcceptedIntentResponse ==
    ( /\ Served
      /\ ~AllWhitespace(call.input)
      /\ call.intent # NoIntent
      /\ call.probability > Threshold
      /\ HasResponses(call.intent) )
    => /\ call.response \in Range(tag_responses[call.intent])
       /\ call.response \notin Range(fallbacks)
       /\ \A t \in DOMAIN tag_responses \ {call.intent} :
              call.response \notin Range(tag_responses[t])

C2_Witness ==
    /\ Served
    /\ call.probability > Threshold
    /\ HasResponses(call.intent)
    /\ call.response \in Range(tag_responses[call.intent])

\* C3: a predicted intent without a registered response (its tag is not in
\* the table, or its list is empty) is answered from the fallback list,
\* whatever the probability.
C3_NoResponsesFallsBack ==
    (Served /\ call.intent # NoIntent /\ ~HasResponses(call.intent))
    => call.response \in Range(fallbacks)

\* C4: every call returns a response string and raises nothing; an
\* exception inside the call is answered with the "having trouble" message.
C4_NeverRaises ==
    Served =>
        /\ call.raised = "none"
        /\ call.response # NoResponse
        /\ call.caught # "none" => call.response = HavingTrouble

C4_Witness ==
    Served /\ call.caught = "IndexError" /\ call.response = HavingTrouble

\* C5: a blank message never reaches the model: /chat answers it with its
\* prompt without calling get_response, and get_response answers it with
\* "Please type a question." without calling the vectorizer.
C5_BlankNeverReachesModel ==
    (Served /\ AllWhitespace(call.input)) =>
        /\ ~call.invokedModel
        /\ call.route = "chat" =>
              ~call.invokedGetResponse /\ call.response = PleaseEnter
        /\ call.route = "get_response" => call.response = PleaseType

C5_Witness ==
    /\ call.route = "get_response"
    /\ call.input # <<>>
    /\ AllWhitespace(call.input)
    /\ call.response = PleaseType

\* C6: a chatbot exists only with the corpus and all three artifacts loaded;
\* a failed construction leaves no instance, and requests are served by a
\* fully loaded chatbot only.
C6_NoPartialBundle ==
    /\ srvPc = "ready" =>
          /\ intents_data.readable
          /\ vectorizer.state # Missing
          /\ label_encoder.state # Missing
          /\ classifier.state # Missing
    /\ Served => srvPc = "ready"

C6_Witness ==
    /\ srvPc = "failed"
    /\ intentsFile.readable
    /\ vecFile.state # Missing
    /\ clfFile.state = Missing

\* C7: a chatbot that finished loading holds a vectorizer, a label encoder
\* and a classifier of one training run.
C7_BundleFromOneRun ==
    srvPc = "ready" =>
        /\ vectorizer.run = label_encoder.run
        /\ label_encoder.run = classifier.run

\* C8: a training run that fitted has written its three fitted objects when
\* train returns, whatever the accuracy, and nothing of a run is on disk
\* before the run has fitted all three.
C8_AlwaysSaved ==
    /\ trainPc = "returned" =>
          /\ vecFile = tVectorizer /\ vecFile.run = trainRun
          /\ encFile = tLabelEncoder /\ encFile.run = trainRun
          /\ clfFile = tClassifier /\ clfFile.run = trainRun
    /\ \A f \in {vecFile, encFile, clfFile} :
          /\ f.state \in {Missing, Fitted}
          /\ (trainRun > 0 /\ f.run = trainRun) =>
                /\ tVectorizer.state = Fitted
                /\ tLabelEncoder.state = Fitted
                /\ tClassifier.state = Fitted

C8_Witness ==
    /\ trainPc = "returned"
    /\ accuracy = 0
    /\ clfFile.run = trainRun

Usable(c) == c.readable /\ UniqueTags(c.intents) /\ NonEmptyIntents(c.intents)

\* C9: a corpus with unique tags and non-empty patterns and responses stays
\* one under every update_intents run.
C9_CorpusStaysUsable ==
    [][Usable(intentsFile) => Usable(intentsFile')]_vars

\* C10: once the chatbot is constructed nothing changes its vectorizer,
\* label encoder, classifier, intents or response table.
C10_BundleReadOnly ==
    [][srvPc = "ready" => UNCHANGED <<srvPc, bundle>>]_vars

C10_Witness ==
    /\ call.route = "chat"
    /\ call.success
    /\ HasResponses(call.intent)
    /\ call.probability > Threshold

====
